---- MODULE Spec2Model ----
(***************************************************************************)
(* Model of the documentation scripts of node-api-dotnet:                  *)
(*   src/unnamed/part_001  the .NET API doc script (build, convert, merge, *)
(*                         navigation tree, Markdown post-processing)      *)
(*   src/unnamed/part_000  the JS API doc script (typedoc -> Markdown)     *)
(*                                                                         *)
(* Text is a sequence of one-character strings, so that the regular        *)
(* expressions of the scripts are modelled position by position.           *)
(***************************************************************************)
EXTENDS Integers, Sequences, FiniteSets, TLC

VARIABLES
    script,         \* which script runs: "dotnet" (part_001) or "js" (part_000)
    pc,             \* position of the script's top-level code
    projIdx,        \* index into projectList of the project being processed
    outDir,         \* the output directory: file id -> content
    binDir,         \* build artifacts present under out/bin: set of [project, ext]
    srcFiles,       \* js script: whether src/node-api-dotnet/index.d.ts exists
    indexMarkdown,  \* part_001 line 33: the accumulated index text
    nav,            \* part_001 line 38: the navigation tree, or NotComputed
    stdout,         \* console.log lines: the commands and progress messages
    stderr,         \* console.error lines
    caught,         \* the error thrown and not yet reported, or NoError
    exitCode,       \* process exit status, or Running
    arg,            \* pure-function specifications: the input drawn by Init
    ret,            \* pure-function specifications: the current result
    calls           \* pure-function specifications: number of applications

pipelineVars == <<script, pc, projIdx, outDir, binDir, srcFiles, indexMarkdown,
                  nav, stdout, stderr, caught, exitCode>>
funcVars == <<arg, ret, calls>>
vars == <<script, pc, projIdx, outDir, binDir, srcFiles, indexMarkdown,
          nav, stdout, stderr, caught, exitCode, arg, ret, calls>>

(***************************************************************************)
(* Bounds of the model.                                                    *)
(***************************************************************************)
MaxLen == 4
MaxRuns == 2
MaxIndexLen == 3
MaxLines == 2
MaxTypeDepth == 1

(***************************************************************************)
(* Text helpers.                                                           *)
(***************************************************************************)
NL == "\n"

\* All texts over alphabet `chars' of length at most n.
RECURSIVE TextsUpTo(_, _)
TextsUpTo(chars, n) ==
    IF n = 0 THEN {<<>>}
    ELSE LET shorter == TextsUpTo(chars, n - 1)
         IN  shorter \cup {Append(t, c) : t \in {u \in shorter : Len(u) = n - 1}, c \in chars}

Min(S) == CHOOSE x \in S : \A y \in S : x <= y

\* Concatenation of a sequence of texts, by halves.
RECURSIVE Flatten(_)
Flatten(ss) ==
    IF ss = <<>> THEN <<>>
    ELSE IF Len(ss) = 1 THEN ss[1]
    ELSE LET half == Len(ss) \div 2
         IN  Flatten(SubSeq(ss, 1, half)) \o Flatten(SubSeq(ss, half + 1, Len(ss)))

\* Whether text p occurs in s starting at position i.
OccursAt(s, p, i) ==
    /\ i >= 1
    /\ i + Len(p) - 1 <= Len(s)
    /\ \A k \in 1..Len(p) : s[i + k - 1] = p[k]

\* The lines of s, split at "\n"; a final "\n" ends the last line and opens
\* no further one.
LineBreaks(s) == {i \in 1..Len(s) : s[i] = NL}

Lines(s) ==
    LET breaks == LineBreaks(s)
        ends == IF s # <<>> /\ s[Len(s)] # NL THEN breaks \cup {Len(s) + 1} ELSE breaks
        EndOf(k) == CHOOSE e \in ends : Cardinality({x \in ends : x <= e}) = k
        StartOf(k) == IF k = 1 THEN 1 ELSE EndOf(k - 1) + 1
    IN  [k \in 1..Cardinality(ends) |-> SubSeq(s, StartOf(k), EndOf(k) - 1)]

(***************************************************************************)
(* processMarkdown, part_001 lines 124-142.                                *)
(***************************************************************************)
semiEntity == <<"&", "s", "e", "m", "i", ";">>
lbraceEntity == <<"&", "l", "b", "r", "a", "c", "e", ";">>
rbraceEntity == <<"&", "r", "b", "r", "a", "c", "e", ";">>

frontMatter ==
    <<"-", "-", "-", "\n">>
    \o <<"e", "d", "i", "t", "L", "i", "n", "k", ":", " ", "f", "a", "l", "s", "e", "\n">>
    \o <<"p", "r", "e", "v", ":", " ", "f", "a", "l", "s", "e", "\n">>
    \o <<"n", "e", "x", "t", ":", " ", "f", "a", "l", "s", "e", "\n">>
    \o <<"o", "u", "t", "l", "i", "n", "e", ":", " ", "f", "a", "l", "s", "e", "\n">>
    \o <<"-", "-", "-", "\n">>

\* The lookbehind (?<=\|[^|]*): a "|" somewhere before position i with no "|"
\* between it and i.  [^|] matches line breaks too.
LookBehindPipe(s, i) ==
    \E j \in 1..(i - 1) : s[j] = "|" /\ \A m \in (j + 1)..(i - 1) : s[m] # "|"

\* The lookahead (?=[^|]*\|): a "|" somewhere after position i with no "|"
\* between i and it.
LookAheadPipe(s, i) ==
    \E k \in (i + 1)..Len(s) : s[k] = "|" /\ \A m \in (i + 1)..(k - 1) : s[m] # "|"

\* s.replace(/(?<=\|[^|]*)c(?=[^|]*\|)/g, entity): the lookarounds are
\* evaluated on the text the replace was called on.
EscapeInTable(s, c, entity) ==
    Flatten([i \in 1..Len(s) |->
        IF s[i] = c /\ LookBehindPipe(s, i) /\ LookAheadPipe(s, i)
        THEN entity ELSE <<s[i]>>])

processMarkdown(md) ==
    LET md1 == EscapeInTable(md, ";", semiEntity)
        md2 == EscapeInTable(md1, "{", lbraceEntity)
        md3 == EscapeInTable(md2, "}", rbraceEntity)
    IN  frontMatter \o md3

(***************************************************************************)
(* Idle values of the variables a specification does not use.              *)
(***************************************************************************)
Running == "running"
NotComputed == [computed |-> FALSE, items |-> <<>>]
Computed(items) == [computed |-> TRUE, items |-> items]
NoError == [message |-> ""]

PipelineIdle ==
    /\ script = "none"
    /\ pc = "idle"
    /\ projIdx = 0
    /\ outDir = <<>>
    /\ binDir = {}
    /\ srcFiles = {}
    /\ indexMarkdown = <<>>
    /\ nav = NotComputed
    /\ stdout = <<>>
    /\ stderr = <<>>
    /\ caught = NoError
    /\ exitCode = Running

(***************************************************************************)
(* SpecMd: processMarkdown applied to every Markdown text up to MaxLen     *)
(* characters, and again to its own result.                                *)
(***************************************************************************)
MdChars == {"|", ";", "{", "}", "a", NL}

InitMd ==
    /\ PipelineIdle
    /\ arg \in TextsUpTo(MdChars, MaxLen)
    /\ ret = arg
    /\ calls = 0

ProcessMarkdownCall ==
    /\ calls < MaxRuns
    /\ ret' = processMarkdown(ret)
    /\ calls' = calls + 1
    /\ UNCHANGED <<arg, pipelineVars>>

NextMd == ProcessMarkdownCall

SpecMd == InitMd /\ [][NextMd]_vars

\* What the claims call a table cell: the text between two "|" of one line
\* with no "|" in between.
InTableCell(s, i) ==
    \E j \in 1..(i - 1), k \in (i + 1)..Len(s) :
        /\ s[j] = "|"
        /\ s[k] = "|"
        /\ \A m \in (j + 1)..(k - 1) : s[m] \notin {"|", NL}

EscapedInCellsOnly(s) ==
    Flatten([i \in 1..Len(s) |->
        IF InTableCell(s, i) /\ s[i] = ";" THEN semiEntity
        ELSE IF InTableCell(s, i) /\ s[i] = "{" THEN lbraceEntity
        ELSE IF InTableCell(s, i) /\ s[i] = "}" THEN rbraceEntity
        ELSE <<s[i]>>])

\* C5: after one application, the ";", "{" and "}" inside table cells are
\* replaced by their entities and every other character of the input is
\* unchanged, wherever it sits in the file.
C5_EscapesExactlyTableCells ==
    calls = 1 => ret = frontMatter \o EscapedInCellsOnly(arg)

\* C6: processMarkdown is idempotent: the second application returns what
\* the first returned.
C6_Idempotent ==
    calls = 2 => ret = processMarkdown(arg)

(***************************************************************************)
(* The index merge, part_001 lines 41-42.                                  *)
(***************************************************************************)
indexTitle ==
    <<"#", " ", ".", "N", "E", "T", " ", "A", "P", "I", " ",
      "R", "e", "f", "e", "r", "e", "n", "c", "e", "\n">>

\* ^ under the m flag: the start of the text or the position after a line break.
AtLineStart(s, i) == i = 1 \/ s[i - 1] = NL

\* The position after the last character of the line that holds position i
\* ("." matches no line break, "$" under the m flag matches before one).
LineEnd(s, i) == Min({k \in i..Len(s) : s[k] = NL} \cup {Len(s) + 1})

\* Where /^<prefix> .*$/m can match: at a line start followed by the prefix
\* and a space.
HeaderStarts(s, headerPrefix) ==
    {i \in 1..Len(s) : AtLineStart(s, i) /\ OccursAt(s, headerPrefix \o <<" ">>, i)}

\* s.replace(/^# .*$/gm, ''), scanning from position i: the text up to the
\* next match is copied, the match is dropped and the scan goes on after it.
RECURSIVE RemoveLevel1HeadersFrom(_, _)
RemoveLevel1HeadersFrom(s, i) ==
    LET starts == {m \in HeaderStarts(s, <<"#">>) : m >= i}
    IN  IF starts = {} THEN SubSeq(s, i, Len(s))
        ELSE SubSeq(s, i, Min(starts) - 1)
             \o RemoveLevel1HeadersFrom(s, LineEnd(s, Min(starts)))
RemoveLevel1Headers(s) == RemoveLevel1HeadersFrom(s, 1)

mergeIndex(markdown) == indexTitle \o RemoveLevel1Headers(markdown)

(***************************************************************************)
(* SpecIndex: the index merge applied to the concatenation of every pair   *)
(* of per-project Markdown texts up to MaxIndexLen characters.             *)
(***************************************************************************)
IndexChars == {"#", " ", "a", NL}

InitIndex ==
    /\ PipelineIdle
    /\ arg \in [1..2 -> TextsUpTo(IndexChars, MaxIndexLen)]
    /\ ret = <<>>
    /\ calls = 0

\* part_001 lines 33-36 accumulate the texts with +=, line 42 merges.
MergeIndexCall ==
    /\ calls = 0
    /\ ret' = mergeIndex(Flatten(arg))
    /\ calls' = 1
    /\ UNCHANGED <<arg, pipelineVars>>

NextIndex == MergeIndexCall

SpecIndex == InitIndex /\ [][NextIndex]_vars

IsLevel1Header(line) == OccursAt(line, <<"#", " ">>, 1)

\* A text with the content of each of its level-1 header lines removed, line
\* by line; the line breaks stay.
RECURSIVE JoinLines(_, _)
JoinLines(ls, lastBreak) ==
    IF ls = <<>> THEN <<>>
    ELSE IF Len(ls) = 1 THEN Head(ls) \o (IF lastBreak THEN <<NL>> ELSE <<>>)
    ELSE Head(ls) \o <<NL>> \o JoinLines(Tail(ls), lastBreak)

WithoutOwnLevel1Headers(s) ==
    JoinLines([i \in 1..Len(Lines(s)) |->
                  IF IsLevel1Header(Lines(s)[i]) THEN <<>> ELSE Lines(s)[i]],
              s # <<>> /\ s[Len(s)] = NL)

\* C8: the merged index is the new title line followed by the projects'
\* texts in order, each without its own level-1 header lines; no line after
\* the first is a level-1 header.
C8_OneTitleProjectHeadersRemoved ==
    calls = 1 =>
        /\ OccursAt(ret, indexTitle, 1)
        /\ \A i \in 2..Len(Lines(ret)) : ~IsLevel1Header(Lines(ret)[i])
        /\ ret = indexTitle \o Flatten([p \in 1..2 |-> WithoutOwnLevel1Headers(arg[p])])

\* The same statement for project texts that are empty or end with a line
\* break, which is the case the merge handles.
EndsWithLineBreak(s) == s = <<>> \/ s[Len(s)] = NL

IndexMergeOfTerminatedTexts ==
    (calls = 1 /\ \A p \in 1..2 : EndsWithLineBreak(arg[p])) =>
        /\ OccursAt(ret, indexTitle, 1)
        /\ \A i \in 2..Len(Lines(ret)) : ~IsLevel1Header(Lines(ret)[i])
        /\ ret = indexTitle \o Flatten([p \in 1..2 |-> WithoutOwnLevel1Headers(arg[p])])

(***************************************************************************)
(* Configuration, part_001 lines 8-26.                                     *)
(***************************************************************************)
assemblyNamePrefix == "Microsoft.JavaScript."

\* The first project has no `references' property.
projectList ==
    << [name |-> "NodeApi"],
       [name |-> "NodeApi.DotNetHost", references |-> <<"NodeApi">>] >>

AssemblyNameOf(projectName) == assemblyNamePrefix \o projectName

(***************************************************************************)
(* The file system: a function from file ids to contents.  A file id is    *)
(* the directory (path segments below the root), the name without its      *)
(* extension, and the extension.                                           *)
(***************************************************************************)
FileId(dir, base, ext) == [dir |-> dir, base |-> base, ext |-> ext]

EmptyDir == <<>>

IsPrefix(p, s) == Len(p) <= Len(s) /\ SubSeq(s, 1, Len(p)) = p

\* fs.existsSync(path) && fs.lstatSync(path).isDirectory(): a directory
\* exists where some file lies below it.
IsDirectory(fs, path) == \E f \in DOMAIN fs : IsPrefix(path, f.dir)

\* fs.readdirSync(dir).filter((f) => /\.md$/.test(f)).map((f) => f.substr(0, f.length - 3))
ReadDirMd(fs, dir) == {f.base : f \in {g \in DOMAIN fs : g.dir = dir /\ g.ext = "md"}}

\* The file names of the model in the order of Array.prototype.sort
\* (UTF-16 code units).
NameOrder ==
    << "GetProperty", "JSValue", "Microsoft.JavaScript.NodeApi",
       "Microsoft.JavaScript.NodeApi.DotNetHost", "index", "stale" >>

SortNames(names) == SelectSeq(NameOrder, LAMBDA n : n \in names)

(***************************************************************************)
(* generateNavigationTree and getMarkdownFileHeaders, part_001 lines       *)
(* 145-204.                                                                *)
(***************************************************************************)
Digits == {"0", "1", "2", "3", "4", "5", "6", "7", "8", "9"}

UpperCase ==
    <<"A", "B", "C", "D", "E", "F", "G", "H", "I", "J", "K", "L", "M",
      "N", "O", "P", "Q", "R", "S", "T", "U", "V", "W", "X", "Y", "Z">>
LowerCase ==
    <<"a", "b", "c", "d", "e", "f", "g", "h", "i", "j", "k", "l", "m",
      "n", "o", "p", "q", "r", "s", "t", "u", "v", "w", "x", "y", "z">>

ToLowerCase(c) ==
    IF \E k \in 1..Len(UpperCase) : UpperCase[k] = c
    THEN LowerCase[CHOOSE k \in 1..Len(UpperCase) : UpperCase[k] = c]
    ELSE c

namespaceSuffix == <<" ", "n", "a", "m", "e", "s", "p", "a", "c", "e">>
structureWord == <<"s", "t", "r", "u", "c", "t", "u", "r", "e">>
structWord == <<"s", "t", "r", "u", "c", "t">>

EndsWith(s, suffix) == OccursAt(s, suffix, Len(s) - Len(suffix) + 1)

\* markdown.matchAll(new RegExp(`^${headerPrefix} (.*)$`, 'gm')), scanning
\* from position i; each match yields its group 1.
RECURSIVE HeadersFrom(_, _, _)
HeadersFrom(s, headerPrefix, i) ==
    LET starts == {m \in HeaderStarts(s, headerPrefix) : m >= i}
    IN  IF starts = {} THEN <<>>
        ELSE <<SubSeq(s, Min(starts) + Len(headerPrefix) + 1, LineEnd(s, Min(starts)) - 1)>>
             \o HeadersFrom(s, headerPrefix, LineEnd(s, Min(starts)))

getMarkdownFileHeaders(markdown, headerPrefix) == HeadersFrom(markdown, headerPrefix, 1)

\* The positions where / \(\d.*\)$/ matches in h.
OverloadSuffixStarts(h) ==
    {i \in 1..Len(h) :
        /\ OccursAt(h, <<" ", "(">>, i)
        /\ i + 3 <= Len(h)
        /\ h[i + 2] \in Digits
        /\ h[Len(h)] = ")"}

\* / \(\d.*\)$/.test(h)
HasOverloadSuffix(h) == OverloadSuffixStarts(h) # {}

\* h.replace(/ \(\d.*\)$/, ''): the leftmost match is removed.
StripOverloadSuffix(h) ==
    IF HasOverloadSuffix(h) THEN SubSeq(h, 1, Min(OverloadSuffixStarts(h)) - 1) ELSE h

\* part_001 lines 159-162: only the first header is tested; when it matches,
\* it replaces the whole list.  headers[0] of an empty list is undefined,
\* which the regular expression does not match.
MergeOverloads(headers) ==
    IF headers # <<>> /\ HasOverloadSuffix(headers[1])
    THEN <<StripOverloadSuffix(headers[1])>>
    ELSE headers

\* header.replace(/\.| /g, '-').toLowerCase()
AnchorOf(header) ==
    [i \in 1..Len(header) |->
        IF header[i] \in {".", " "} THEN "-" ELSE ToLowerCase(header[i])]

\* s.replace('structure', 'struct'): the first occurrence only.
ReplaceFirstStructure(s) ==
    LET starts == {i \in 1..Len(s) : OccursAt(s, structureWord, i)}
    IN  IF starts = {} THEN s
        ELSE LET i == Min(starts)
             IN  SubSeq(s, 1, i - 1) \o structWord
                 \o SubSeq(s, i + Len(structureWord), Len(s))

\* part_001 lines 182-184.
ShortenHeader(header) ==
    ReplaceFirstStructure(
        IF EndsWith(header, namespaceSuffix)
        THEN SubSeq(header, 1, Len(header) - Len(namespaceSuffix))
        ELSE header)

\* part_001 lines 173-179: the link below /reference/dotnet/, a page path or
\* an anchor of the merged index.
LinkOf(subDir, file, header) ==
    IF EndsWith(header, namespaceSuffix)
    THEN [path |-> <<>>, anchor |-> AnchorOf(header)]
    ELSE [path |-> subDir \o <<file>>, anchor |-> <<>>]

\* part_001 lines 186-191; a property whose value is undefined is left out,
\* as JSON.stringify leaves it out of nav.mts.
NavItem(text, link, hasSubItems, subItems) ==
    IF hasSubItems
    THEN [text |-> text, link |-> link, items |-> subItems, collapsed |-> TRUE]
    ELSE [text |-> text, link |-> link]

\* A variant that matches "##" headers at every depth.
HeaderPrefixAlwaysRoot(subDir) == <<"#", "#">>

\* part_001 line 157: subDir ? '#' : '##'
HeaderPrefixOf(subDir) == IF subDir # <<>> THEN <<"#">> ELSE <<"#", "#">>

RECURSIVE generateNavigationTree(_, _)
generateNavigationTree(fs, subDir) ==
    LET files == SortNames(ReadDirMd(fs, subDir))
        ItemsOfFile(file) ==
            LET headers == MergeOverloads(
                    getMarkdownFileHeaders(fs[FileId(subDir, file, "md")],
                                           HeaderPrefixOf(subDir)))
                hasSub == IsDirectory(fs, subDir \o <<file>>)
                subItems == IF hasSub
                            THEN generateNavigationTree(fs, subDir \o <<file>>)
                            ELSE <<>>
            IN  [h \in 1..Len(headers) |->
                    NavItem(ShortenHeader(headers[h]),
                            LinkOf(subDir, file, headers[h]),
                            hasSub, subItems)]
    IN  Flatten([i \in 1..Len(files) |-> ItemsOfFile(files[i])])

(***************************************************************************)
(* SpecNav: generateNavigationTree applied to directory layouts of up to   *)
(* three levels whose Markdown files hold up to MaxLines lines.            *)
(***************************************************************************)
RootLines ==
    { <<"#", "#", " ", "N", " ", "n", "a", "m", "e", "s", "p", "a", "c", "e", "\n">>,
      <<"#", "#", " ", "F", " ", "(", "2", ")", "\n">>,
      <<"#", "#", " ", "G", "\n">>,
      <<"#", " ", "A", "\n">> }

SubLines ==
    { <<"#", " ", "F", "\n">>,
      <<"#", " ", "F", " ", "(", "2", ")", "\n">>,
      <<"#", " ", "S", " ", "s", "t", "r", "u", "c", "t", "u", "r", "e", "\n">>,
      <<"#", "#", " ", "G", "\n">> }

MemberText ==
    <<"#", " ", "G", " ", "(", "1", " ", "o", "f", " ", "2", ")", "\n">>
    \o <<"#", " ", "G", " ", "(", "2", " ", "o", "f", " ", "2", ")", "\n">>

\* The texts made of at most n of the given lines.
RECURSIVE TextsOfLines(_, _)
TextsOfLines(lines, n) ==
    IF n = 0 THEN {<<>>}
    ELSE TextsOfLines(lines, n - 1)
         \cup {t \o l : t \in TextsOfLines(lines, n - 1), l \in lines}

NodeApiAssembly == AssemblyNameOf(projectList[1].name)
DotNetHostAssembly == AssemblyNameOf(projectList[2].name)

RootFile == FileId(EmptyDir, NodeApiAssembly, "md")
SecondRootFile == FileId(EmptyDir, DotNetHostAssembly, "md")
TypeFile == FileId(<<NodeApiAssembly>>, "JSValue", "md")
MemberFile == FileId(<<NodeApiAssembly, "JSValue">>, "GetProperty", "md")

\* A function given as a set of <<file id, content>> pairs.
FsOf(pairs) ==
    [f \in {p[1] : p \in pairs} |-> (CHOOSE p \in pairs : p[1] = f)[2]]

NavLayouts ==
    { FsOf({<<RootFile, root>>} \cup second \cup types \cup members) :
        root \in TextsOfLines(RootLines, MaxLines),
        second \in {{}, {<<SecondRootFile, <<"#", "#", " ", "G", "\n">>>>}},
        types \in {{}} \cup {{<<TypeFile, t>>} : t \in TextsOfLines(SubLines, MaxLines)},
        members \in {{}, {<<MemberFile, MemberText>>}} }

InitNav ==
    /\ PipelineIdle
    /\ arg \in NavLayouts
    /\ ret = <<>>
    /\ calls = 0

GenerateNavigationTreeCall ==
    /\ calls = 0
    /\ ret' = generateNavigationTree(arg, EmptyDir)
    /\ calls' = 1
    /\ UNCHANGED <<arg, pipelineVars>>

NextNav == GenerateNavigationTreeCall

SpecNav == InitNav /\ [][NextNav]_vars

\* The NavItems of a tree, at every depth.
RECURSIVE AllNavItems(_)
AllNavItems(items) ==
    UNION {{items[i]} \cup (IF "items" \in DOMAIN items[i]
                            THEN AllNavItems(items[i].items) ELSE {})
           : i \in 1..Len(items)}

RootFileHeaders == getMarkdownFileHeaders(arg[RootFile], HeaderPrefixOf(EmptyDir))

\* C10: a header with an overload-count suffix yields a NavItem whose text is
\* the header without the suffix, at whatever position it stands; no NavItem
\* text keeps the suffix; the other headers of the file yield their own
\* NavItems.
C10_OverloadSuffixCollapsed ==
    calls = 1 =>
        /\ \A item \in AllNavItems(ret) : ~HasOverloadSuffix(item.text)
        /\ \A h \in 1..Len(RootFileHeaders) :
              \E i \in 1..Len(ret) :
                  ret[i].text = ShortenHeader(StripOverloadSuffix(RootFileHeaders[h]))

\* What the code does: a root file whose first header carries the suffix
\* yields one NavItem, that header without the suffix.
NavFirstHeaderWithSuffixCollapsesFile ==
    (calls = 1 /\ Len(RootFileHeaders) >= 1 /\ HasOverloadSuffix(RootFileHeaders[1]))
    => /\ Len(SelectSeq(ret, LAMBDA item : item.link.path = <<NodeApiAssembly>>)) = 1
       /\ \E i \in 1..Len(ret) : ret[i].text = StripOverloadSuffix(RootFileHeaders[1])

\* The characters of the file names of the model, in increasing order of
\* their UTF-16 code units.
CodeUnitOrder ==
    << ".",
       "0", "1", "2", "3", "4", "5", "6", "7", "8", "9",
       "A", "B", "C", "D", "E", "F", "G", "H", "I", "J", "K", "L", "M",
       "N", "O", "P", "Q", "R", "S", "T", "U", "V", "W", "X", "Y", "Z",
       "a", "b", "c", "d", "e", "f", "g", "h", "i", "j", "k", "l", "m",
       "n", "o", "p", "q", "r", "s", "t", "u", "v", "w", "x", "y", "z" >>

CodeUnitRank(c) == CHOOSE i \in 1..Len(CodeUnitOrder) : CodeUnitOrder[i] = c

\* a comes before b in lexicographic order of code units.
LexLess(a, b) ==
    LET k == Min({i \in 1..(Len(b) + 1) :
                    i > Len(a) \/ i > Len(b) \/ a[i] # b[i]})
    IN  /\ k <= Len(b)
        /\ k > Len(a) \/ CodeUnitRank(a[k]) < CodeUnitRank(b[k])

\* The names of the model, character by character.
Spelling ==
       "GetProperty" :> <<"G", "e", "t", "P", "r", "o", "p", "e", "r", "t", "y">>
    @@ "JSValue" :> <<"J", "S", "V", "a", "l", "u", "e">>
    @@ "Microsoft.JavaScript.NodeApi" :> <<"M", "i", "c", "r", "o", "s", "o", "f", "t", ".", "J", "a", "v", "a", "S", "c", "r", "i", "p", "t", ".", "N", "o", "d", "e", "A", "p", "i">>
    @@ "Microsoft.JavaScript.NodeApi.DotNetHost" :> <<"M", "i", "c", "r", "o", "s", "o", "f", "t", ".", "J", "a", "v", "a", "S", "c", "r", "i", "p", "t", ".", "N", "o", "d", "e", "A", "p", "i", ".", "D", "o", "t", "N", "e", "t", "H", "o", "s", "t">>
    @@ "index" :> <<"i", "n", "d", "e", "x">>
    @@ "stale" :> <<"s", "t", "a", "l", "e">>

mdExtension == <<".", "m", "d">>

\* The text a name is ordered by: the file name with its extension, or the
\* name without it.
SortKey(name, withExtension) ==
    Spelling[name] \o (IF withExtension THEN mdExtension ELSE <<>>)

\* The Markdown files of a directory, by name without extension, in
\* lexicographic order of their sort keys.
FilesInOrder(fs, dir, withExtension) ==
    LET names == {f.base : f \in {g \in DOMAIN fs : g.dir = dir /\ g.ext = "md"}}
        Position(n) ==
            1 + Cardinality({m \in names :
                    LexLess(SortKey(m, withExtension), SortKey(n, withExtension))})
    IN  [i \in 1..Cardinality(names) |-> CHOOSE n \in names : Position(n) = i]

\* The headers of a file that yield NavItems, in their order in the file:
\* "##" headers in the root directory, "#" headers below it.
NavHeadersOf(fs, dir, file) ==
    MergeOverloads(getMarkdownFileHeaders(
        fs[FileId(dir, file, "md")],
        IF dir = EmptyDir THEN <<"#", "#">> ELSE <<"#">>))

\* One <<file, header>> entry for each expected NavItem of a directory:
\* files in order, the headers of one file in their in-file order.
NavEntries(fs, dir, withExtension) ==
    LET files == FilesInOrder(fs, dir, withExtension)
    IN  Flatten([i \in 1..Len(files) |->
            LET headers == NavHeadersOf(fs, dir, files[i])
            IN  [h \in 1..Len(headers) |->
                    [file |-> files[i], header |-> headers[h]]]])

\* The items of a directory are those of its entries, in order; an item has
\* items and collapsed: true exactly when a subdirectory named as its file
\* exists, and then items is the tree of that subdirectory, of which the same
\* holds.
RECURSIVE NavTreeOk(_, _, _, _)
NavTreeOk(items, fs, dir, withExtension) ==
    LET entries == NavEntries(fs, dir, withExtension)
    IN  /\ Len(items) = Len(entries)
        /\ \A k \in 1..Len(items) :
              LET subDir == dir \o <<entries[k].file>>
                  hasSubDir == \E f \in DOMAIN fs : IsPrefix(subDir, f.dir)
              IN  /\ items[k].text = ShortenHeader(entries[k].header)
                  /\ ("items" \in DOMAIN items[k]) <=> hasSubDir
                  /\ ("collapsed" \in DOMAIN items[k]) <=> hasSubDir
                  /\ hasSubDir =>
                        /\ items[k].collapsed = TRUE
                        /\ items[k].items = generateNavigationTree(fs, subDir)
                        /\ NavTreeOk(items[k].items, fs, subDir, withExtension)

\* C11: every NavItem has items and collapsed: true exactly when a
\* subdirectory with the base name of its Markdown file exists next to the
\* file, items then being the result of the recursive call on it, and has
\* neither otherwise; sibling items are in lexicographic order of their file
\* names ("X.md"), the headers of one file in in-file order; headers are
\* matched with "##" at the root and "#" in every subdirectory.
C11_TreeFollowsLayoutInFileNameOrder ==
    calls = 1 => NavTreeOk(ret, arg, EmptyDir, TRUE)

\* C11 as the code has it: the same, sibling items being in lexicographic
\* order of their file names without the ".md" extension.
C11_TreeFollowsLayoutInBaseNameOrder ==
    calls = 1 => NavTreeOk(ret, arg, EmptyDir, FALSE)

\* A tree of three levels over two root files: items with and without
\* sub-items, and siblings that come from different files.
C11_Witness ==
    /\ calls = 1
    /\ {RootFile, SecondRootFile, TypeFile, MemberFile} \subseteq DOMAIN arg
    /\ \E i, j \in 1..Len(ret) :
          /\ i < j
          /\ "items" \notin DOMAIN ret[j]
          /\ "items" \in DOMAIN ret[i]
          /\ \E k \in 1..Len(ret[i].items) :
                /\ "items" \in DOMAIN ret[i].items[k]
                /\ ret[i].items[k].collapsed = TRUE
                /\ Len(ret[i].items[k].items) = 1

(***************************************************************************)
(* typeToMarkdown, part_000 lines 154-170.                                 *)
(*                                                                         *)
(* A JS object is a record that has a field for each property it has; the  *)
(* value undefined is the record Undefined.  A call returns                *)
(* [threw |-> FALSE, value |-> text], or [threw |-> TRUE, ...] when it     *)
(* ends with a TypeError.                                                  *)
(***************************************************************************)
Undefined == [tag |-> "undefined"]

Returned(text) == [threw |-> FALSE, value |-> text]
TypeError == [threw |-> TRUE, value |-> "TypeError"]

Has(obj, property) == obj # Undefined /\ property \in DOMAIN obj

\* obj.property, undefined when the object has no such property.
Get(obj, property) == IF property \in DOMAIN obj THEN obj[property] ELSE Undefined

\* JSON.stringify of a literal value.
JSONStringify(value) ==
    CASE value.json = "string" -> "\"" \o value.s \o "\""
      [] value.json = "number" -> ToString(value.n)
      [] value.json = "null" -> "null"

\* parts.join(separator)
RECURSIVE Join(_, _)
Join(parts, separator) ==
    IF parts = <<>> THEN ""
    ELSE IF Len(parts) = 1 THEN parts[1]
    ELSE parts[1] \o separator \o Join(Tail(parts), separator)

RECURSIVE typeToMarkdown(_)
typeToMarkdown(type) ==
    IF Has(type, "type") /\ type.type = "literal"
    THEN Returned(JSONStringify(type.value))
    ELSE IF Has(type, "name") /\ type.name # ""
    THEN Returned(type.name)
    ELSE IF type = Undefined
    THEN TypeError               \* type.declaration of undefined
    ELSE IF /\ Has(type, "declaration")
            /\ Has(type.declaration, "signatures")
            /\ Len(type.declaration.signatures) = 1
    THEN LET signature == type.declaration.signatures[1]
         IN  IF ~Has(signature, "parameters")
             THEN TypeError      \* signature.parameters.map of undefined
             ELSE LET rendered == [i \in 1..Len(signature.parameters) |->
                                      typeToMarkdown(Get(signature.parameters[i], "type"))]
                      result == typeToMarkdown(Get(signature, "type"))
                  IN  IF \E i \in 1..Len(rendered) : rendered[i].threw
                      THEN TypeError
                      ELSE IF result.threw THEN TypeError
                      ELSE Returned(
                          "(" \o Join([i \in 1..Len(rendered) |->
                                          signature.parameters[i].name \o ": "
                                          \o rendered[i].value], ", ")
                          \o ") => " \o result.value)
    ELSE Returned("unknown")

(***************************************************************************)
(* SpecType: typeToMarkdown applied to every type shape of nesting depth   *)
(* at most MaxTypeDepth.                                                   *)
(***************************************************************************)
NamedType == [type |-> "reference", name |-> "JSValue"]

LeafTypes ==
    { Undefined,
      [type |-> "literal", value |-> [json |-> "string", s |-> "a"]],
      [type |-> "literal", value |-> [json |-> "number", n |-> 1]],
      [type |-> "literal", value |-> [json |-> "null"], name |-> "x"],
      NamedType,
      [type |-> "intrinsic", name |-> "string"],
      [type |-> "union"],
      [type |-> "reflection", declaration |-> [name |-> "__type"]],
      [type |-> "reflection", declaration |-> [signatures |-> <<>>]] }

\* A parameter may lack its type, a signature its parameters or its type.
ParameterLists(types) ==
    {<<>>}
    \cup {<<[name |-> "p", type |-> t]>> : t \in types \ {Undefined}}
    \cup {<<[name |-> "p"]>>}
    \cup {<<[name |-> "p", type |-> t], [name |-> "q", type |-> NamedType]>> :
            t \in types \ {Undefined}}

Signatures(types) ==
    {[parameters |-> ps, type |-> r] : ps \in ParameterLists(types), r \in types \ {Undefined}}
    \cup {[parameters |-> ps] : ps \in ParameterLists(types)}
    \cup {[type |-> r] : r \in types \ {Undefined}}

RECURSIVE TypesOfDepth(_)
TypesOfDepth(d) ==
    IF d = 0 THEN LeafTypes
    ELSE LET inner == TypesOfDepth(d - 1)
         IN  inner
             \cup {[type |-> "reflection", declaration |-> [signatures |-> <<sig>>]] :
                      sig \in Signatures(inner)}
             \cup {[type |-> "reflection",
                    declaration |-> [signatures |-> <<sig, [parameters |-> <<>>, type |-> NamedType]>>]] :
                      sig \in {[parameters |-> <<>>, type |-> NamedType]}}

InitType ==
    /\ PipelineIdle
    /\ arg \in TypesOfDepth(MaxTypeDepth)
    /\ ret = Undefined
    /\ calls = 0

TypeToMarkdownCall ==
    /\ calls = 0
    /\ ret' = typeToMarkdown(arg)
    /\ calls' = 1
    /\ UNCHANGED <<arg, pipelineVars>>

NextType == TypeToMarkdownCall

SpecType == InitType /\ [][NextType]_vars

\* The chain as the claim states it: literal, name, single signature as an
\* arrow, and "unknown" for everything else, an undefined type included.
RECURSIVE ChainText(_)
ChainText(type) ==
    IF Has(type, "type") /\ type.type = "literal" THEN JSONStringify(type.value)
    ELSE IF Has(type, "name") /\ type.name # "" THEN type.name
    ELSE IF /\ Has(type, "declaration")
            /\ Has(type.declaration, "signatures")
            /\ Len(type.declaration.signatures) = 1
    THEN LET signature == type.declaration.signatures[1]
             parameters == IF Has(signature, "parameters") THEN signature.parameters ELSE <<>>
         IN  "(" \o Join([i \in 1..Len(parameters) |->
                             parameters[i].name \o ": "
                             \o ChainText(Get(parameters[i], "type"))], ", ")
             \o ") => " \o ChainText(Get(signature, "type"))
    ELSE "unknown"

\* C9: typeToMarkdown returns what the chain literal, name, single-signature
\* arrow, "unknown" gives, and never fails.
C9_FallbackChainNeverFails ==
    calls = 1 => ret = Returned(ChainText(arg))

\* For a type that is defined and whose signatures, if rendered, carry their
\* parameters and every type, the result is the chain's.
RECURSIVE FullyTyped(_)
FullyTyped(type) ==
    /\ type # Undefined
    /\ (/\ ~(Has(type, "type") /\ type.type = "literal")
        /\ ~(Has(type, "name") /\ type.name # "")
        /\ Has(type, "declaration")
        /\ Has(type.declaration, "signatures")
        /\ Len(type.declaration.signatures) = 1)
       => LET signature == type.declaration.signatures[1]
          IN  /\ Has(signature, "parameters")
              /\ \A i \in 1..Len(signature.parameters) :
                     FullyTyped(Get(signature.parameters[i], "type"))
              /\ FullyTyped(Get(signature, "type"))

TypeChainOfDefinedTypes ==
    (calls = 1 /\ FullyTyped(arg)) => ret = Returned(ChainText(arg))

(***************************************************************************)
(* Spec: one run of a script.  The .NET API doc script is the top-level    *)
(* code of part_001 (lines 28-50) with the functions it calls; the JS API  *)
(* doc script is the promise chain of part_000 (lines 11-17).  The build   *)
(* tool, the converter and typedoc are the environment: their exit status  *)
(* and the files they leave are chosen nondeterministically.               *)
(***************************************************************************)
NavFile == FileId(EmptyDir, "nav", "mts")
IndexFile == FileId(EmptyDir, "index", "md")
ApiJsonFile == FileId(EmptyDir, "api", "json")
StaleFile == FileId(EmptyDir, "stale", "md")

TopFileOf(assemblyName) == FileId(EmptyDir, assemblyName, "md")

\* projectReferences ?? []
ReferencesOf(project) ==
    IF "references" \in DOMAIN project THEN project.references ELSE <<>>

AssemblyReferencesWithoutPrefix(project) == ReferencesOf(project)

\* (projectReferences ?? []).map((p) => assemblyNamePrefix + p)
AssemblyReferencesOf(project) ==
    [i \in 1..Len(ReferencesOf(project)) |-> AssemblyNameOf(ReferencesOf(project)[i])]

\* The command lines that exec logs and runs.
BuildCommand(projectName) == [cmd |-> "dotnet build", project |-> projectName]
ConvertCommand(projectName, assemblyReferences) ==
    [cmd |-> "dotnet run xmldocmd", project |-> projectName, external |-> assemblyReferences]

BuildingLog(projectName) == [log |-> "Building project", project |-> projectName]
GeneratingLog(assemblyName) == [log |-> "Generating markdown", project |-> assemblyName]
PostProcessingLog == [log |-> "Post-processing markdown files."]

\* What childProcess.execSync can do: return, or throw with the exit status
\* of the command, or throw without a status (the command was killed).
ExecOutcomes == {[status |-> 0], [status |-> 1], [status |-> 2], [signal |-> "SIGTERM"]}

ExecFailed(outcome) == ~("status" \in DOMAIN outcome /\ outcome.status = 0)

\* exec, part_001 lines 53-61: the error it throws.
ExecError(outcome) ==
    IF "status" \in DOMAIN outcome
    THEN [message |-> "Command executed with status: " \o ToString(outcome.status)]
    ELSE [message |-> "Command failed: " \o outcome.signal]

ThrowAndGoOn(error) ==
    /\ caught' = error
    /\ pc' = "nav"

\* A throw inside the try block (part_001 line 28) or inside the promise
\* chain (part_000 lines 11-14) goes to the catch handler.
Throw(error) ==
    /\ caught' = error
    /\ pc' = "catch"

StepAfterPostProcessFirst(step) ==
    CASE step = "loop" -> "index"
      [] step = "index" -> "postprocess"
      [] step = "postprocess" -> "nav"
      [] step = "nav" -> "end"

\* The order of the top-level statements of part_001 after the project loop:
\* lines 38-39, 42-44, 46-47.
StepAfter(step) ==
    CASE step = "loop" -> "nav"
      [] step = "nav" -> "index"
      [] step = "index" -> "postprocess"
      [] step = "postprocess" -> "end"

SampleTopMarkdown ==
    { <<"#", " ", "A", "\n">>
        \o <<"#", "#", " ", "N", " ", "n", "a", "m", "e", "s", "p", "a", "c", "e", "\n">>
        \o <<"|", " ", "{", "a", ";", "}", " ", "|", "\n">>,
      <<"#", " ", "B", "\n", "x", ";">> }

SampleTypeMarkdown ==
    <<"-", "-", "-", "\n">>
    \o <<"#", " ", "S", " ", "s", "t", "r", "u", "c", "t", "u", "r", "e", "\n">>

\* What the converter may leave in the output directory for an assembly:
\* nothing, the per-assembly file alone, or the file with a type page and a
\* member page below it.
Emissions(assemblyName) ==
    {<<>>}
    \cup {TopFileOf(assemblyName) :> t : t \in SampleTopMarkdown}
    \cup {(TopFileOf(assemblyName) :> t)
          @@ (FileId(<<assemblyName>>, "JSValue", "md") :> SampleTypeMarkdown)
          @@ (FileId(<<assemblyName, "JSValue">>, "GetProperty", "md") :> MemberText)
          : t \in SampleTopMarkdown}

\* The typedoc project of api.json: its name and its children.
SampleJsProjects ==
    { [name |-> "node-api-dotnet", children |-> <<>>],
      [name |-> "node-api-dotnet"],
      [name |-> "node-api-dotnet",
       children |-> <<[kind |-> "Variable", name |-> "runtimeVersion",
                       type |-> [type |-> "intrinsic", name |-> "string"]]>>],
      [name |-> "node-api-dotnet",
       children |-> <<[kind |-> "Variable", name |-> "frameworkMoniker"]>>],
      [name |-> "node-api-dotnet",
       children |-> <<[kind |-> "Function", name |-> "require",
                       signatures |-> <<[parameters |-> <<[name |-> "dotnetAssemblyFilePath",
                                                           type |-> [type |-> "intrinsic", name |-> "string"]]>>,
                                         type |-> [type |-> "intrinsic", name |-> "any"]]>>]>>] }

InitRun ==
    /\ script \in {"dotnet", "js"}
    /\ pc = "start"
    /\ projIdx = 0
    /\ outDir \in {<<>>, StaleFile :> <<"#", "#", " ", "G", "\n">>}
    /\ binDir = {}
    /\ srcFiles \in SUBSET {"index.d.ts"}
    /\ indexMarkdown = <<>>
    /\ nav = NotComputed
    /\ stdout = <<>>
    /\ stderr = <<>>
    /\ caught = NoError
    /\ exitCode = Running
    /\ arg = <<>>
    /\ ret = <<>>
    /\ calls = 0

\* part_001 lines 29-33.
ClearOutDir ==
    /\ script = "dotnet"
    /\ pc = "start"
    /\ outDir' = <<>>
    /\ indexMarkdown' = <<>>
    /\ projIdx' = 1
    /\ pc' = "build"
    /\ UNCHANGED <<script, binDir, srcFiles, nav, stdout, stderr, caught, exitCode, funcVars>>

\* buildProjectXmldocs, part_001 lines 64-84, called at line 89.
BuildProjectXmldocs ==
    /\ script = "dotnet"
    /\ pc = "build"
    /\ LET projectName == projectList[projIdx].name
       IN  \E outcome \in ExecOutcomes, produced \in SUBSET {"dll", "xml"} :
             /\ stdout' = stdout \o <<BuildingLog(projectName), BuildCommand(projectName)>>
             /\ binDir' = {a \in binDir : a.project # projectName}
                          \cup {[project |-> projectName, ext |-> e] : e \in produced}
             /\ IF ExecFailed(outcome) THEN Throw(ExecError(outcome))
                ELSE IF "dll" \notin produced
                THEN Throw([message |-> "Assembly file was not found at "
                                        \o AssemblyNameOf(projectName) \o ".dll"])
                ELSE IF "xml" \notin produced
                THEN Throw([message |-> "XML doc file was not found at "
                                        \o AssemblyNameOf(projectName) \o ".xml"])
                ELSE pc' = "convert" /\ caught' = caught
    /\ UNCHANGED <<script, projIdx, outDir, srcFiles, indexMarkdown, nav, stderr, exitCode, funcVars>>

\* The rest of buildProjectMarkdownDocs, part_001 lines 90-108, and the loop
\* step of lines 34-36.
ConvertToMarkdown ==
    /\ script = "dotnet"
    /\ pc = "convert"
    /\ LET project == projectList[projIdx]
           assemblyName == AssemblyNameOf(project.name)
       IN  \E outcome \in ExecOutcomes, emitted \in Emissions(assemblyName) :
             /\ stdout' = stdout \o <<GeneratingLog(assemblyName),
                                      ConvertCommand(project.name, AssemblyReferencesOf(project))>>
             /\ outDir' = emitted @@ outDir
             /\ IF ExecFailed(outcome)
                THEN Throw(ExecError(outcome)) /\ UNCHANGED <<indexMarkdown, projIdx>>
                ELSE IF TopFileOf(assemblyName) \notin DOMAIN outDir'
                THEN /\ Throw([message |-> "ENOENT: no such file or directory, open "
                                           \o assemblyName \o ".md"])
                     /\ UNCHANGED <<indexMarkdown, projIdx>>
                ELSE /\ indexMarkdown' = indexMarkdown \o outDir'[TopFileOf(assemblyName)]
                     /\ caught' = caught
                     /\ IF projIdx < Len(projectList)
                        THEN projIdx' = projIdx + 1 /\ pc' = "build"
                        ELSE projIdx' = projIdx /\ pc' = StepAfter("loop")
    /\ UNCHANGED <<script, binDir, srcFiles, nav, stderr, exitCode, funcVars>>

\* part_001 lines 38-39.
WriteNavigation ==
    /\ script = "dotnet"
    /\ pc = "nav"
    /\ nav' = Computed(generateNavigationTree(outDir, EmptyDir))
    /\ outDir' = (NavFile :> [exportDefault |-> nav'.items]) @@ outDir
    /\ pc' = StepAfter("nav")
    /\ UNCHANGED <<script, projIdx, binDir, srcFiles, indexMarkdown, stdout, stderr,
                   caught, exitCode, funcVars>>

\* part_001 lines 41-44.
WriteIndex ==
    /\ script = "dotnet"
    /\ pc = "index"
    /\ indexMarkdown' = mergeIndex(indexMarkdown)
    /\ outDir' = (IndexFile :> indexMarkdown') @@ outDir
    /\ pc' = StepAfter("index")
    /\ UNCHANGED <<script, projIdx, binDir, srcFiles, nav, stdout, stderr, caught,
                   exitCode, funcVars>>

processMarkdownFilesTopLevelOnly(directory) ==
    [f \in DOMAIN directory |->
        IF f.ext = "md" /\ f.dir = EmptyDir
        THEN processMarkdown(directory[f]) ELSE directory[f]]

\* A variant that lists each subdirectory a second time, so that the files
\* below the top level are processed twice.
processMarkdownFilesSubdirsTwice(directory) ==
    [f \in DOMAIN directory |->
        IF f.ext # "md" THEN directory[f]
        ELSE IF f.dir = EmptyDir THEN processMarkdown(directory[f])
        ELSE processMarkdown(processMarkdown(directory[f]))]

\* processMarkdownFiles, part_001 lines 112-121, called at lines 46-47; the
\* listing is recursive.
processMarkdownFiles(directory) ==
    [f \in DOMAIN directory |->
        IF f.ext = "md" THEN processMarkdown(directory[f]) ELSE directory[f]]

PostProcess ==
    /\ script = "dotnet"
    /\ pc = "postprocess"
    /\ stdout' = Append(stdout, PostProcessingLog)
    /\ outDir' = processMarkdownFiles(outDir)
    /\ pc' = StepAfter("postprocess")
    /\ UNCHANGED <<script, projIdx, binDir, srcFiles, indexMarkdown, nav, stderr, caught,
                   exitCode, funcVars>>

\* part_001 lines 48-50: the handler reports the error and the script goes on
\* to its end.
CatchError ==
    /\ script = "dotnet"
    /\ pc = "catch"
    /\ stderr' = Append(stderr, caught.message)
    /\ pc' = "end"
    /\ UNCHANGED <<script, projIdx, outDir, binDir, srcFiles, indexMarkdown, nav, stdout,
                   caught, exitCode, funcVars>>

\* The script has run to its end; nothing has set an exit status, so the
\* process ends with 0.
ProcessEnd ==
    /\ pc = "end"
    /\ exitCode' = 0
    /\ pc' = "exited"
    /\ UNCHANGED <<script, projIdx, outDir, binDir, srcFiles, indexMarkdown, nav, stdout,
                   stderr, caught, funcVars>>

\* exportJsdocToJson, part_000 lines 19-48.
ExportJsdocToJson ==
    /\ script = "js"
    /\ pc = "start"
    /\ IF "index.d.ts" \notin srcFiles
       THEN /\ outDir' = <<>>
            /\ Throw([message |-> "File not found: index.d.ts"])
       ELSE \/ /\ outDir' = <<>>
               /\ Throw([message |-> "typedoc: bootstrap failed"])
            \/ /\ outDir' = <<>>
               /\ Throw([message |-> "Failed to convert TypeScript to documentation."])
            \/ \E project \in SampleJsProjects :
                 /\ outDir' = ApiJsonFile :> project
                 /\ pc' = "toMarkdown"
                 /\ caught' = caught
    /\ UNCHANGED <<script, projIdx, binDir, srcFiles, indexMarkdown, nav, stdout, stderr,
                   exitCode, funcVars>>

\* convertPropertyReflectionToMarkdown and convertFunctionReflectionToMarkdown,
\* part_000 lines 107-152, as far as they can fail: the type texts of a child.
TypeTextsOf(item) ==
    IF item.kind = "Variable" THEN <<typeToMarkdown(Get(item, "type"))>>
    ELSE Flatten([s \in 1..Len(item.signatures) |->
            IF ~Has(item.signatures[s], "parameters") THEN <<TypeError>>
            ELSE [i \in 1..Len(item.signatures[s].parameters) |->
                    typeToMarkdown(Get(item.signatures[s].parameters[i], "type"))]])

\* convertJsonToMarkdown, part_000 lines 50-105.  The Markdown is kept as the
\* list of sections, each with the type texts it shows.
ConvertJsonToMarkdown ==
    /\ script = "js"
    /\ pc = "toMarkdown"
    /\ LET project == outDir[ApiJsonFile]
       IN  IF ~Has(project, "children")
           THEN Throw([message |-> "TypeError: project.children is undefined"])
                /\ UNCHANGED indexMarkdown
           ELSE LET sections == [c \in 1..Len(project.children) |->
                                    [name |-> project.children[c].name,
                                     types |-> TypeTextsOf(project.children[c])]]
                IN  IF \E c \in 1..Len(sections) :
                          \E t \in 1..Len(sections[c].types) : sections[c].types[t].threw
                    THEN Throw([message |-> "TypeError: type is undefined"])
                         /\ UNCHANGED indexMarkdown
                    ELSE /\ indexMarkdown' = <<[title |-> project.name]>> \o sections
                         /\ pc' = "write"
                         /\ caught' = caught
    /\ UNCHANGED <<script, projIdx, outDir, binDir, srcFiles, nav, stdout, stderr,
                   exitCode, funcVars>>

\* part_000 line 13.
WriteJsIndex ==
    /\ script = "js"
    /\ pc = "write"
    /\ outDir' = (IndexFile :> indexMarkdown) @@ outDir
    /\ pc' = "end"
    /\ UNCHANGED <<script, projIdx, binDir, srcFiles, indexMarkdown, nav, stdout, stderr,
                   caught, exitCode, funcVars>>

\* part_000 lines 14-17.
CatchAndExit ==
    /\ script = "js"
    /\ pc = "catch"
    /\ stderr' = Append(stderr, caught.message)
    /\ exitCode' = 1
    /\ pc' = "exited"
    /\ UNCHANGED <<script, projIdx, outDir, binDir, srcFiles, indexMarkdown, nav, stdout,
                   caught, funcVars>>

Next ==
    \/ ClearOutDir
    \/ BuildProjectXmldocs
    \/ ConvertToMarkdown
    \/ WriteNavigation
    \/ WriteIndex
    \/ PostProcess
    \/ CatchError
    \/ ProcessEnd
    \/ ExportJsdocToJson
    \/ ConvertJsonToMarkdown
    \/ WriteJsIndex
    \/ CatchAndExit

Spec == InitRun /\ [][Next]_vars

(***************************************************************************)
(* Properties of a run.                                                    *)
(***************************************************************************)
Range(seq) == {seq[i] : i \in 1..Len(seq)}

\* The commands run so far, in order.
Commands(log) == SelectSeq(log, LAMBDA line : "cmd" \in DOMAIN line)

MarkdownFiles(directory) == {f \in DOMAIN directory : f.ext = "md"}

Succeeded == script = "dotnet" /\ pc = "exited" /\ caught = NoError

\* C1: the exit status is 0 when the run succeeds and non-zero when a step
\* failed, and the message of the failure is on the error stream by then.
C1_ExitStatusTellsFailure ==
    pc = "exited" =>
        IF caught = NoError
        THEN exitCode = 0
        ELSE exitCode # 0 /\ caught.message \in Range(stderr)

\* The JS script meets it.
JsExitStatusTellsFailure ==
    (script = "js" /\ pc = "exited") =>
        IF caught = NoError
        THEN exitCode = 0
        ELSE exitCode # 0 /\ caught.message \in Range(stderr)

\* C2: in the .NET script a failing step is the last step that runs: the step
\* that fails runs one command, of the current project, and nothing has
\* written nav.mts or index.md or post-processed a file by then; no command
\* of a later project has run and, when the build fails, none of the
\* converter for that project; from then on no command runs and the output
\* directory, the build output, the index text and the navigation tree stay
\* as they are.
C2_FailureAbortsRun ==
    [][(script = "dotnet" /\ caught' # NoError) =>
          /\ nav' = NotComputed
          /\ NavFile \notin DOMAIN outDir'
          /\ IndexFile \notin DOMAIN outDir'
          /\ PostProcessingLog \notin Range(stdout')
          /\ caught = NoError => Len(Commands(stdout')) = Len(Commands(stdout)) + 1
          /\ LET cmds == Commands(stdout')
                 failing == cmds[Len(cmds)]
             IN  /\ failing.project = projectList[projIdx'].name
                 /\ \A i \in 1..Len(cmds), j \in (projIdx' + 1)..Len(projectList) :
                        cmds[i].project # projectList[j].name
                 /\ failing.cmd = "dotnet build" =>
                        \A i \in 1..Len(cmds) :
                            ~(cmds[i].cmd = "dotnet run xmldocmd"
                              /\ cmds[i].project = failing.project)
          /\ caught # NoError =>
                UNCHANGED <<stdout, outDir, binDir, indexMarkdown, nav, projIdx, caught>>]_vars

\* A run that failed in the build of the first project and has ended.
C2_Witness ==
    /\ script = "dotnet"
    /\ pc = "exited"
    /\ caught # NoError
    /\ Commands(stdout) = <<BuildCommand(projectList[1].name)>>

\* The commands of a complete run: per project in configured order its build,
\* then its conversion with one --external per referenced project.
ExpectedCommands ==
    Flatten([p \in 1..Len(projectList) |->
        << [cmd |-> "dotnet build", project |-> projectList[p].name],
           [cmd |-> "dotnet run xmldocmd", project |-> projectList[p].name,
            external |-> IF "references" \in DOMAIN projectList[p]
                         THEN [r \in 1..Len(projectList[p].references) |->
                                  "Microsoft.JavaScript." \o projectList[p].references[r]]
                         ELSE <<>>] >>])

TopMarkdownInOrder ==
    Flatten([p \in 1..Len(projectList) |->
        outDir[FileId(<<>>, "Microsoft.JavaScript." \o projectList[p].name, "md")]])

\* C3: the commands run are a prefix of build A, convert A, build B,
\* convert B with A's assembly name as B's one external reference; after the
\* loop the index text is A's top-level Markdown followed by B's, and
\* index.md is written from that text.
C3_ProjectsInConfiguredOrder ==
    script = "dotnet" =>
        /\ IsPrefix(Commands(stdout), ExpectedCommands)
        /\ ExpectedCommands[4].external = <<"Microsoft.JavaScript.NodeApi">>
        /\ pc = "nav" => indexMarkdown = TopMarkdownInOrder
        /\ pc = "postprocess" =>
              outDir[IndexFile] = indexTitle \o RemoveLevel1Headers(TopMarkdownInOrder)

\* A run in which both projects were built and converted and index.md is
\* about to be post-processed.
C3_Witness ==
    /\ script = "dotnet"
    /\ pc = "postprocess"
    /\ Commands(stdout) = ExpectedCommands
    /\ IndexFile \in DOMAIN outDir

\* C4 as stated: by the time the navigation tree is derived, index.md is
\* there and every Markdown file has been post-processed.
C4_PostProcessedBeforeNavigation ==
    (script = "dotnet" /\ nav # NotComputed) =>
        /\ IndexFile \in DOMAIN outDir
        /\ \A f \in MarkdownFiles(outDir) : OccursAt(outDir[f], frontMatter, 1)

\* C4 as amended: the navigation tree is derived once, from the output
\* directory as the converter left it, after every project has been
\* converted and before index.md is written and before any file is
\* post-processed; index.md is written next and post-processing comes last.
C4_NavigationBeforeIndexAndPostProcessing ==
    [][script = "dotnet" =>
          /\ nav' # nav =>
                /\ nav = NotComputed
                /\ nav' = Computed(generateNavigationTree(outDir, EmptyDir))
                /\ Commands(stdout) = ExpectedCommands
                /\ IndexFile \notin DOMAIN outDir
                /\ PostProcessingLog \notin Range(stdout)
          /\ (IndexFile \in DOMAIN outDir' /\ IndexFile \notin DOMAIN outDir) =>
                /\ nav # NotComputed
                /\ PostProcessingLog \notin Range(stdout)
          /\ (PostProcessingLog \in Range(stdout') /\ PostProcessingLog \notin Range(stdout)) =>
                /\ nav # NotComputed
                /\ IndexFile \in DOMAIN outDir
                /\ \A f \in MarkdownFiles(outDir) : outDir'[f] = processMarkdown(outDir[f])]_vars

\* A successful run whose navigation tree is not the tree of the final
\* output directory.
C4_Witness ==
    /\ Succeeded
    /\ nav # NotComputed
    /\ OccursAt(outDir[IndexFile], frontMatter, 1)
    /\ nav.items # generateNavigationTree(outDir, EmptyDir)

FrontMatterLines == Lines(frontMatter)

FrontMatterKeys == SelectSeq(FrontMatterLines, LAMBDA line : line # <<"-", "-", "-">>)

\* C7 as stated: after a successful run every Markdown file starts with the
\* front-matter block, which has five keys and is the first five lines.
C7_FiveKeyBlockInFirstFiveLines ==
    Succeeded =>
        \A f \in MarkdownFiles(outDir) :
            /\ OccursAt(outDir[f], frontMatter, 1)
            /\ Len(FrontMatterKeys) = 5
            /\ Len(FrontMatterLines) = 5
            /\ SubSeq(Lines(outDir[f]), 1, 5) = FrontMatterLines

\* C7 as amended: after a successful run every Markdown file starts with the
\* front-matter block, which has four keys between two "---" lines and is
\* the first six lines.
C7_FourKeyBlockInFirstSixLines ==
    Succeeded =>
        \A f \in MarkdownFiles(outDir) :
            /\ OccursAt(outDir[f], frontMatter, 1)
            /\ Len(FrontMatterKeys) = 4
            /\ Len(FrontMatterLines) = 6
            /\ SubSeq(Lines(outDir[f]), 1, 6) = FrontMatterLines

\* A successful run that left a type page, whose text began with "---"
\* before, and index.md.
C7_Witness ==
    /\ Succeeded
    /\ IndexFile \in DOMAIN outDir
    /\ \E f \in MarkdownFiles(outDir) :
          f.dir # EmptyDir /\ OccursAt(outDir[f], frontMatter \o <<"-", "-", "-", NL>>, 1)

PostProcessed == PostProcessingLog \in Range(stdout)

\* C12: the output directory is emptied before anything is generated; the
\* post-processing step is the first to apply processMarkdown, applies it
\* once to the text of every ".md" file of the output directory tree and
\* leaves every other file, nav.mts among them, as it is; nothing is written
\* after it, and a successful run has taken it exactly once, so that at the
\* end every ".md" file has been processed once, none twice and none not at
\* all.
C12_ClearedThenEachFileProcessedOnce ==
    [][script = "dotnet" =>
          /\ pc = "start" => (stdout = <<>> /\ outDir' = <<>>)
          /\ pc = "postprocess" =>
                /\ ~PostProcessed
                /\ {NavFile, IndexFile} \subseteq DOMAIN outDir
                /\ \A f \in MarkdownFiles(outDir) : ~OccursAt(outDir[f], frontMatter, 1)
                /\ DOMAIN outDir' = DOMAIN outDir
                /\ \A f \in DOMAIN outDir :
                      outDir'[f] = IF f \in MarkdownFiles(outDir)
                                   THEN processMarkdown(outDir[f])
                                   ELSE outDir[f]
          /\ PostProcessed => outDir' = outDir
          /\ (pc' = "exited" /\ caught' = NoError) =>
                Len(SelectSeq(stdout', LAMBDA line : line = PostProcessingLog)) = 1
      ]_vars

\* A successful run that left per-assembly files, a type page, a member page,
\* index.md and nav.mts: every Markdown file begins with the front matter
\* once, and nav.mts holds the navigation tree as it was written.
C12_Witness ==
    /\ Succeeded
    /\ PostProcessed
    /\ IndexFile \in DOMAIN outDir
    /\ outDir[NavFile] = [exportDefault |-> nav.items]
    /\ \E f, g, h \in MarkdownFiles(outDir) : Len(f.dir) = 0 /\ Len(g.dir) = 1 /\ Len(h.dir) = 2
    /\ \A f \in MarkdownFiles(outDir) :
          /\ OccursAt(outDir[f], frontMatter, 1)
          /\ ~OccursAt(outDir[f], frontMatter, Len(frontMatter) + 1)

====
